---- MODULE Spec2Model ----
(***************************************************************************)
(* A model of the rename utility (src/src/main.cpp): one run of rename()   *)
(* over a small filesystem.  Strings are sequences of one-character        *)
(* strings; a std::filesystem::path is its string; the filesystem is a     *)
(* tree keyed by the sequence of names leading to a node.                  *)
(***************************************************************************)
EXTENDS Integers, Sequences, FiniteSets, TLC

\* ------------------------------------------------------------------ bounds

\* Most regular files present before the run.
MaxFiles == 2

\* The names files have before the run.
Names == {<<"a">>, <<"b">>, <<"a", "b">>, <<"b", "a">>}

\* The PATTERN arguments tried: the empty pattern, literals, the wildcard,
\* capture groups, and two that are no regular expression.
Patterns ==
    {<<>>, <<"a">>, <<"b">>, <<".">>, <<"(", "a", ")">>, <<"(", ".", ")">>,
     <<"(", ".", ")", "b">>, <<"(">>, <<")">>}

\* The REPLACEMENT arguments tried: plain text, text with a separator,
\* references to group 1, an escaped dollar.
Replacements ==
    {<<>>, <<"a">>, <<"b">>, <<"a", "b">>, <<"a", "/">>, <<"/", "a">>,
     <<"$", "1">>, <<"$", "1", "b">>, <<"$", "$">>}

\* ------------------------------------------------------------- characters

\* The byte value of a character (char_traits<char> ordering).
CharCode(c) ==
    CASE c = "$" -> 36
      [] c = "(" -> 40
      [] c = ")" -> 41
      [] c = "." -> 46
      [] c = "/" -> 47
      [] c = "1" -> 49
      [] c = "a" -> 97
      [] c = "b" -> 98
      [] c = "d" -> 100

IsDigit(c) == c = "1"

\* std::string operator< : lexicographic by byte, a proper prefix first.
RECURSIVE StrLess(_, _)
StrLess(s, t) ==
    IF t = <<>> THEN FALSE
    ELSE IF s = <<>> THEN TRUE
    ELSE IF CharCode(Head(s)) < CharCode(Head(t)) THEN TRUE
    ELSE IF CharCode(Head(s)) > CharCode(Head(t)) THEN FALSE
    ELSE StrLess(Tail(s), Tail(t))

\* ------------------------------------------------------------------ paths

\* The names between the separators of a path string, empty ones dropped.
RECURSIVE SplitFrom(_, _, _)
SplitFrom(s, i, cur) ==
    IF i > Len(s) THEN (IF cur = <<>> THEN <<>> ELSE <<cur>>)
    ELSE IF s[i] = "/"
         THEN (IF cur = <<>> THEN <<>> ELSE <<cur>>) \o SplitFrom(s, i + 1, <<>>)
         ELSE SplitFrom(s, i + 1, Append(cur, s[i]))

Split(s) == SplitFrom(s, 1, <<>>)

\* The string of the absolute path made of the names in comps.
RECURSIVE PathString(_)
PathString(comps) ==
    IF comps = <<>> THEN <<>>
    ELSE <<"/">> \o Head(comps) \o PathString(Tail(comps))

\* Index of the last separator of a path string, 0 when there is none.
RECURSIVE LastSlash(_, _)
LastSlash(s, i) ==
    IF i = 0 THEN 0 ELSE IF s[i] = "/" THEN i ELSE LastSlash(s, i - 1)

\* path::filename(): what follows the last separator.
Filename(p) == SubSeq(p, LastSlash(p, Len(p)) + 1, Len(p))

\* path::replace_filename(name): remove_filename() then operator/=(name);
\* operator/= with an absolute operand replaces the whole path.
ReplaceFilename(p, name) ==
    IF name # <<>> /\ name[1] = "/" THEN name
    ELSE SubSeq(p, 1, LastSlash(p, Len(p))) \o name

\* What the kernel resolves a path string to: the names, and whether the
\* string ends with a separator.
Resolve(p) ==
    [comps |-> Split(p), trailing |-> (p = <<>> \/ p[Len(p)] = "/")]

Parent(comps) == SubSeq(comps, 1, Len(comps) - 1)

\* path::compare(): lexicographic over the elements, each compared as a string.
RECURSIVE CompsLess(_, _)
CompsLess(x, y) ==
    IF y = <<>> THEN FALSE
    ELSE IF x = <<>> THEN TRUE
    ELSE IF StrLess(Head(x), Head(y)) THEN TRUE
    ELSE IF StrLess(Head(y), Head(x)) THEN FALSE
    ELSE CompsLess(Tail(x), Tail(y))

PathLess(p, q) == CompsLess(Split(p), Split(q))

\* ------------------------------------------------------------- std::regex

\* Construction of a std::regex (ECMAScript grammar) from the pattern string,
\* for patterns made of literal characters, the wildcard "." and groups.
\* stack holds the numbers of the groups still open.  ok is FALSE where the
\* constructor throws std::regex_error (a parenthesis without its partner).
\* from/to delimit, in atoms, what group 1 captures.
RECURSIVE Scan(_, _, _, _, _, _, _)
Scan(pat, i, atoms, stack, nsub, from, to) ==
    IF i > Len(pat)
    THEN [ok |-> stack = <<>>, atoms |-> atoms, nsub |-> nsub,
          from |-> from, to |-> to]
    ELSE IF pat[i] = "("
    THEN Scan(pat, i + 1, atoms, <<nsub + 1>> \o stack, nsub + 1,
              IF nsub = 0 THEN Len(atoms) ELSE from, to)
    ELSE IF pat[i] = ")"
    THEN IF stack = <<>>
         THEN [ok |-> FALSE, atoms |-> atoms, nsub |-> nsub,
               from |-> from, to |-> to]
         ELSE Scan(pat, i + 1, atoms, Tail(stack), nsub, from,
                   IF Head(stack) = 1 THEN Len(atoms) ELSE to)
    ELSE Scan(pat, i + 1, Append(atoms, pat[i]), stack, nsub, from, to)

Compile(pat) == Scan(pat, 1, <<>>, <<>>, 0, 0, 0)

\* Whether the pattern matches the characters of s starting at position i.
MatchesAt(re, s, i) ==
    /\ i >= 1
    /\ i + Len(re.atoms) - 1 <= Len(s)
    /\ \A k \in 1..Len(re.atoms) :
           re.atoms[k] = "." \/ re.atoms[k] = s[i + k - 1]

\* std::regex_search: the pattern matches somewhere in s.
HasMatch(re, s) == \E i \in 1..(Len(s) + 1) : MatchesAt(re, s, i)

\* match_results::operator[](n) of a match whose text is m: the whole match
\* for 0, group 1's capture for 1, an unmatched (empty) sub-match otherwise.
SubMatch(re, m, n) ==
    IF n = 0 THEN m
    ELSE IF n = 1 /\ re.nsub >= 1 THEN SubSeq(m, re.from + 1, re.to)
    ELSE <<>>

\* match_results::format (ECMAScript rules): "$$" is a dollar, "$n" and "$nn"
\* are sub-matches, any other "$" stands for itself.
RECURSIVE Format(_, _, _)
Format(fmt, re, m) ==
    IF fmt = <<>> THEN <<>>
    ELSE IF Head(fmt) # "$" THEN <<Head(fmt)>> \o Format(Tail(fmt), re, m)
    ELSE IF Len(fmt) = 1 THEN <<"$">>
    ELSE IF fmt[2] = "$" THEN <<"$">> \o Format(SubSeq(fmt, 3, Len(fmt)), re, m)
    ELSE IF IsDigit(fmt[2])
    THEN IF Len(fmt) >= 3 /\ IsDigit(fmt[3])
         THEN SubMatch(re, m, 11) \o Format(SubSeq(fmt, 4, Len(fmt)), re, m)
         ELSE SubMatch(re, m, 1) \o Format(SubSeq(fmt, 3, Len(fmt)), re, m)
    ELSE <<"$">> \o Format(Tail(fmt), re, m)

\* std::regex_replace over s from position i: every non-overlapping match,
\* leftmost first, is replaced by the formatted replacement; the rest is
\* copied.  An empty match is followed by a search from the next character.
RECURSIVE ReplaceFrom(_, _, _, _)
ReplaceFrom(s, i, re, fmt) ==
    IF MatchesAt(re, s, i)
    THEN LET n == Len(re.atoms)
             r == Format(fmt, re, SubSeq(s, i, i + n - 1))
         IN  IF n > 0 THEN r \o ReplaceFrom(s, i + n, re, fmt)
             ELSE IF i > Len(s) THEN r
             ELSE r \o <<s[i]>> \o ReplaceFrom(s, i + 1, re, fmt)
    ELSE IF i > Len(s) THEN <<>>
    ELSE <<s[i]>> \o ReplaceFrom(s, i + 1, re, fmt)

RegexReplace(s, re, fmt) == ReplaceFrom(s, 1, re, fmt)

\* ------------------------------------------------------------- filesystem

Dir == [kind |-> "dir", id |-> <<>>]
File(id) == [kind |-> "file", id |-> id]

IsDirectory(f, comps) == comps \in DOMAIN f /\ f[comps].kind = "dir"
\* std::filesystem::is_regular_file
IsRegularFile(f, comps) == comps \in DOMAIN f /\ f[comps].kind = "file"

IsPrefix(x, y) == Len(x) <= Len(y) /\ SubSeq(y, 1, Len(x)) = x

\* What directory_iterator(base) yields: the direct children of base.
Children(f, base) ==
    {q \in DOMAIN f : Len(q) = Len(base) + 1 /\ IsPrefix(base, q)}
\* What recursive_directory_iterator(base) yields: the whole subtree but base.
Descendants(f, base) ==
    {q \in DOMAIN f : Len(q) > Len(base) /\ IsPrefix(base, q)}

\* rename(2) of the regular file at old to the path new resolves to.  It
\* fails when new ends with a separator or is the root, when the directory
\* new lies in does not exist, when new is a directory, or when old is gone.
\* An existing regular file at new is replaced.
RenameFails(f, old, new) ==
    \/ new.trailing
    \/ new.comps = <<>>
    \/ ~IsDirectory(f, Parent(new.comps))
    \/ IsDirectory(f, new.comps)
    \/ old \notin DOMAIN f

\* Mutation: the file is copied to new and stays at old as well.
RenameKeepsOld(f, old, new) ==
    [q \in DOMAIN f \cup {new.comps} |-> IF q = new.comps THEN f[old] ELSE f[q]]

RenameResult(f, old, new) ==
    IF new.comps = old THEN f
    ELSE [q \in (DOMAIN f \ {old}) \cup {new.comps} |->
             IF q = new.comps THEN f[old] ELSE f[q]]

\* -------------------------------------------------------------- the state

VARIABLES
    arguments,   \* struct arguments, as argp_parse() filled it
    fs,          \* the filesystem: names from the root |-> node
    fs0,         \* the filesystem as it was when the run started
    pc,          \* where rename() is: compile, resolve, enumerate, loop, done, exited
    pattern,     \* std::regex pattern
    path,        \* std::filesystem::path path
    entries,     \* std::vector<std::filesystem::path> entries
    idx,         \* position of the range-for over entries
    out,         \* lines written to std::cout
    err,         \* diagnostics written to std::cerr
    exit_code,   \* <<status>> once the process has ended, <<>> before
    log,         \* per visited entry: what the loop body did with it
    reordered    \* whether the sort changed the order the iterator gave

vars == <<arguments, fs, fs0, pc, pattern, path, entries, idx, out, err,
          exit_code, log, reordered>>

EXIT_FAILURE == 1
EXIT_SUCCESS == 0

\* The prefix of every diagnostic.
error_prefix == <<"r", "e", "n", "a", "m", "e", ":", " ">>

\* The directory the files live in, and the one name that may be a
\* subdirectory of it.
BaseName == <<"d">>
SubDirName == <<"a">>
\* std::filesystem::current_path() when it succeeds.
Cwd == PathString(<<BaseName>>)

RECURSIVE SubsetsUpTo(_, _)
SubsetsUpTo(S, k) ==
    IF k = 0 THEN {{}}
    ELSE LET prev == SubsetsUpTo(S, k - 1)
         IN  prev \cup {x \cup {e} : x \in prev, e \in S}

\* A filesystem: the root, the directory BaseName with regular files top,
\* and, when sub, its subdirectory SubDirName with regular files inner.
\* A file's id is the place it was at when the run started.
MkFs(top, sub, inner) ==
    LET dirs  == {<<>>, <<BaseName>>}
                   \cup (IF sub THEN {<<BaseName, SubDirName>>} ELSE {})
        files == {<<BaseName, n>> : n \in top}
                   \cup {<<BaseName, SubDirName, n>> : n \in inner}
    IN  [q \in dirs \cup files |-> IF q \in dirs THEN Dir ELSE File(q)]

InitialFilesystems ==
    {MkFs(top, FALSE, {}) : top \in SubsetsUpTo(Names, MaxFiles)}
      \cup UNION {{MkFs(top, TRUE, inner) :
                      inner \in SubsetsUpTo(Names, MaxFiles - Cardinality(top))} :
                  top \in SubsetsUpTo(Names \ {SubDirName}, MaxFiles)}

\* The PATH argument: absent, or the path of BaseName's entry SubDirName.
PathArguments ==
    {[set |-> FALSE, value |-> <<>>],
     [set |-> TRUE, value |-> PathString(<<BaseName, SubDirName>>)]}

Init ==
    /\ arguments \in [pattern : Patterns,
                      replacement : Replacements,
                      path : PathArguments,
                      dry_run : BOOLEAN, recursive : BOOLEAN, quiet : BOOLEAN]
    /\ fs \in InitialFilesystems
    /\ fs0 = fs
    /\ pc = "compile"
    /\ pattern = Compile(<<>>)
    /\ path = <<>>
    /\ entries = <<>>
    /\ idx = 0
    /\ out = <<>>
    /\ err = <<>>
    /\ exit_code = <<>>
    /\ log = <<>>
    /\ reordered = FALSE

\* std::cerr << error_prefix << e.what() << std::endl
Diagnostic(what) == [prefix |-> error_prefix, what |-> what]

\* exit(EXIT_FAILURE) after a diagnostic.
Fatal(what) ==
    /\ err' = Append(err, Diagnostic(what))
    /\ exit_code' = <<EXIT_FAILURE>>
    /\ pc' = "exited"

\* ------------------------------------------------------------ the pipeline

\* Mutation: the constructor's exception is swallowed.
NeverThrows(re) == FALSE

\* pattern = arguments.pattern throws std::regex_error.
CompileThrows(re) == ~re.ok

CompilePattern ==
    /\ pc = "compile"
    /\ LET re == Compile(arguments.pattern)
       IN  IF CompileThrows(re)
           THEN /\ Fatal("regex_error")
                /\ UNCHANGED pattern
           ELSE /\ pattern' = re
                /\ pc' = "resolve"
                /\ UNCHANGED <<err, exit_code>>
    /\ UNCHANGED <<arguments, fs, fs0, path, entries, idx, out, log, reordered>>

\* The base path: arguments.path verbatim, else the current directory, whose
\* lookup the environment may fail (cwdOk).
ResolvePath ==
    /\ pc = "resolve"
    /\ \E cwdOk \in BOOLEAN :
          IF arguments.path.set
          THEN /\ cwdOk
               /\ path' = arguments.path.value
               /\ pc' = "enumerate"
               /\ UNCHANGED <<err, exit_code>>
          ELSE IF cwdOk
          THEN /\ path' = Cwd
               /\ pc' = "enumerate"
               /\ UNCHANGED <<err, exit_code>>
          ELSE /\ Fatal("filesystem_error")
               /\ UNCHANGED path
    /\ UNCHANGED <<arguments, fs, fs0, pattern, entries, idx, out, log, reordered>>

\* Mutation: the recursive iterator is used whatever the flag.
IterateRecursively(f, base, recursive) == Descendants(f, base)

\* The directory entries the iterator of the run yields.
Iterate(f, base, recursive) ==
    IF recursive THEN Descendants(f, base) ELSE Children(f, base)

\* Every order a set can be listed in.
Orders(S) ==
    {o \in [1..Cardinality(S) -> S] : \A i, j \in DOMAIN o : i # j => o[i] # o[j]}

\* std::ranges::sort(entries), by insertion.
RECURSIVE Insert(_, _)
Insert(sorted, p) ==
    IF sorted = <<>> THEN <<p>>
    ELSE IF PathLess(p, Head(sorted)) THEN <<p>> \o sorted
    ELSE <<Head(sorted)>> \o Insert(Tail(sorted), p)

RECURSIVE Sort(_)
Sort(seq) == IF seq = <<>> THEN <<>> ELSE Insert(Sort(Tail(seq)), Head(seq))

\* Mutation: the entries are left in the iterator's order.
Unsorted(seq) == seq

SortEntries(seq) == Sort(seq)

\* The iterator cannot be opened: the base path is no directory.
EnumerationThrows(f, base) == ~IsDirectory(f, base.comps)

\* The path the iterator gives for the node at comps: the base path as it
\* was written, a separator and the names below it.
EntryPath(base_path, base, comps) ==
    base_path \o PathString(SubSeq(comps, Len(base) + 1, Len(comps)))

\* The regular files under the base path, in whatever order the iterator
\* yields them (order), then sorted.  The environment may also refuse the
\* directory although it exists.
Enumerate ==
    /\ pc = "enumerate"
    /\ LET base == Resolve(path)
       IN  \/ /\ EnumerationThrows(fs, base)
              /\ Fatal("filesystem_error")
              /\ UNCHANGED <<entries, idx, reordered>>
           \/ /\ ~EnumerationThrows(fs, base)
              /\ Fatal("filesystem_error")
              /\ UNCHANGED <<entries, idx, reordered>>
           \/ /\ ~EnumerationThrows(fs, base)
              /\ LET found == {q \in Iterate(fs, base.comps, arguments.recursive) :
                                  IsRegularFile(fs, q)}
                 IN  \E order \in Orders(found) :
                        LET listed == [i \in DOMAIN order |->
                                          EntryPath(path, base.comps, order[i])]
                        IN  /\ entries' = SortEntries(listed)
                            /\ reordered' = (entries' # listed)
              /\ idx' = 1
              /\ pc' = "loop"
              /\ UNCHANGED <<err, exit_code>>
    /\ UNCHANGED <<arguments, fs, fs0, pattern, path, out, log>>

\* Mutations of the loop body's conditions: the name comparison, the quiet
\* test and the dry-run test are dropped, and the catch ends the process.
AlwaysChanged(in_filename, out_filename) == TRUE
AlwaysReport(a) == TRUE
AlwaysApply(a) == TRUE
ExitOnRenameError(failed) ==
    IF failed THEN [pc |-> "exited", exit_code |-> <<EXIT_FAILURE>>]
    ELSE [pc |-> "loop", exit_code |-> <<>>]

\* in_filename != out_filename
NameChanged(in_filename, out_filename) == in_filename # out_filename
\* !arguments.quiet
ShouldReport(a) == ~a.quiet
\* !arguments.dry_run
ShouldApply(a) == ~a.dry_run
\* Where the loop body leaves the run: the catch of the rename's
\* filesystem_error writes its diagnostic and falls through to the next entry.
AfterEntry(failed) == [pc |-> "loop", exit_code |-> <<>>]

\* path_display_name
path_display_name(recursive, p) == IF recursive THEN p ELSE Filename(p)

ReportLine(a, in_entry, out_entry) ==
    [from |-> path_display_name(a.recursive, in_entry),
     arrow |-> IF a.dry_run THEN " -> (dry run)" ELSE " -> ",
     to |-> path_display_name(a.recursive, out_entry)]

\* One pass of the loop body, lines 122-154.
ProcessEntry ==
    /\ pc = "loop"
    /\ idx <= Len(entries)
    /\ LET in_entry     == entries[idx]
           in_filename  == Filename(in_entry)
           out_filename == RegexReplace(in_filename, pattern, arguments.replacement)
           changed      == NameChanged(in_filename, out_filename)
           out_entry    == ReplaceFilename(in_entry, out_filename)
           old          == Resolve(in_entry).comps
           new          == Resolve(out_entry)
           reported     == changed /\ ShouldReport(arguments)
           attempted    == changed /\ ShouldApply(arguments)
           failed       == attempted /\ RenameFails(fs, old, new)
       IN  /\ out' = IF reported
                     THEN Append(out, ReportLine(arguments, in_entry, out_entry))
                     ELSE out
           /\ fs' = IF attempted /\ ~failed THEN RenameResult(fs, old, new) ELSE fs
           /\ err' = IF failed THEN Append(err, Diagnostic("filesystem_error")) ELSE err
           /\ log' = Append(log, [src |-> old, in_filename |-> in_filename,
                                  out_filename |-> out_filename,
                                  dst |-> new, reported |-> reported,
                                  attempted |-> attempted, failed |-> failed,
                                  moved |-> IF attempted /\ ~failed
                                            THEN fs[old].id ELSE <<>>])
           /\ pc' = AfterEntry(failed).pc
           /\ exit_code' = AfterEntry(failed).exit_code
           /\ idx' = idx + 1
    /\ UNCHANGED <<arguments, fs0, pattern, path, entries, reordered>>

\* rename() returns and main() returns 0.
Finish ==
    /\ pc = "loop"
    /\ idx > Len(entries)
    /\ pc' = "done"
    /\ exit_code' = <<EXIT_SUCCESS>>
    /\ UNCHANGED <<arguments, fs, fs0, pattern, path, entries, idx, out, err, log,
                   reordered>>

Next == CompilePattern \/ ResolvePath \/ Enumerate \/ ProcessEntry \/ Finish

Spec == Init /\ [][Next]_vars

\* ------------------------------------------------------- the claims' terms

\* The entries visited so far whose computed filename differs from the original.
ChangedEntries == {i \in DOMAIN log : log[i].out_filename # log[i].in_filename}
\* The visited entries for which std::filesystem::rename was called, those
\* for which it threw, and those for which it moved the file.
Attempts == {i \in DOMAIN log : log[i].attempted}
Failures == {i \in DOMAIN log : log[i].failed}
Renames == {i \in DOMAIN log : log[i].attempted /\ ~log[i].failed}

\* The base path's names, and the regular files of a filesystem.
BaseComps == Resolve(path).comps
RegularFiles(f) == {q \in DOMAIN f : f[q].kind = "file"}
InLoop == pc \in {"loop", "done"}

\* ---------------------------------------------------------------- C1

\* C1 (dry-run purity): in a run with dry_run set no rename is ever issued
\* and the filesystem stays what it was when the run started.
DryRunPurity ==
    arguments.dry_run => (fs = fs0 /\ Attempts = {})

\* A finished dry run that reported a rename it would have made.
DryRunPurityWitness ==
    /\ arguments.dry_run
    /\ pc = "done"
    /\ ChangedEntries # {}
    /\ out # <<>>

\* ---------------------------------------------------------------- C2

\* C2 (isolated failure): once a rename of a non-dry run has failed, the run
\* goes on: it ends by visiting every entry and exits 0; every entry whose
\* name changes has its rename attempted, an attempt that can succeed leaves
\* the file at its destination, and every failure has its diagnostic.
IsolatedFailure ==
    (~arguments.dry_run /\ Failures # {}) =>
        /\ InLoop
        /\ pc = "done" => (exit_code = <<EXIT_SUCCESS>> /\ Len(log) = Len(entries))
        /\ \A i \in ChangedEntries : log[i].attempted
        /\ LET last == log[Len(log)]
           IN  (last.attempted /\ ~last.failed) =>
                   /\ IsRegularFile(fs, last.dst.comps)
                   /\ fs[last.dst.comps].id = last.moved
        /\ Len(err) = Cardinality(Failures)
        /\ \A k \in DOMAIN err : err[k] = Diagnostic("filesystem_error")

\* A finished run in which a rename failed and a later one was performed.
IsolatedFailureWitness ==
    /\ pc = "done"
    /\ \E i, j \in DOMAIN log :
          /\ i < j
          /\ log[i].failed
          /\ log[j].attempted /\ ~log[j].failed

\* ---------------------------------------------------------------- C3

\* C3 (directory preservation): every rename the run performs leaves the
\* file in the directory it was in.
DirectoryPreserved ==
    \A i \in Renames : Parent(log[i].dst.comps) = Parent(log[i].src)

\* ---------------------------------------------------------------- C4

\* The entry list is the sorted list of the regular files that were under
\* the base path before the first rename.
EntriesMaterialized ==
    InLoop =>
        /\ {Resolve(entries[i]).comps : i \in DOMAIN entries}
             = {q \in Iterate(fs0, BaseComps, arguments.recursive) :
                   IsRegularFile(fs0, q)}
        /\ \A i, j \in DOMAIN entries : i < j => PathLess(entries[i], entries[j])

\* No file is the source of two renames of the run.
NoFileRenamedTwice ==
    \A i, j \in Renames : i # j => log[i].moved # log[j].moved

\* No regular file that was enumerated is skipped: the file an entry names
\* when it is visited is the file it named at enumeration.
NoFileSkipped ==
    \A i \in DOMAIN log :
        /\ log[i].src = Resolve(entries[i]).comps
        /\ log[i].moved # <<>> => log[i].moved = log[i].src

\* C4 (enumerate-then-act): the entry list is materialized and sorted before
\* the first rename, no file is renamed twice and no enumerated file is skipped.
EnumerateThenAct ==
    /\ EntriesMaterialized
    /\ NoFileRenamedTwice
    /\ NoFileSkipped

\* ---------------------------------------------------------------- C5

\* C5 (no-op invariance): an entry whose filename the pattern matches nowhere
\* keeps its filename, and an entry whose computed filename is the original
\* gets no report line and no rename.
NoOpInvariance ==
    /\ \A i \in DOMAIN log :
          /\ ~HasMatch(pattern, log[i].in_filename)
                => log[i].out_filename = log[i].in_filename
          /\ log[i].out_filename = log[i].in_filename
                => (~log[i].reported /\ ~log[i].attempted)
    /\ Len(out) = Cardinality({i \in DOMAIN log : log[i].reported})
    /\ Attempts = {} => fs = fs0

\* A finished run, neither quiet nor dry, that left alone an entry the
\* pattern does not match and renamed and reported another entry.
NoOpInvarianceWitness ==
    /\ pc = "done"
    /\ ~arguments.quiet /\ ~arguments.dry_run
    /\ \E i \in DOMAIN log : ~HasMatch(pattern, log[i].in_filename)
    /\ Renames # {}
    /\ out # <<>>

\* ---------------------------------------------------------------- C6

\* C6 (fatal gates): a pattern that is no regular expression ends the process
\* with a non-zero status before anything is enumerated; a process ended by
\* the failure of compilation, path resolution or enumeration has printed no
\* report line, issued no rename and left the filesystem as it was; and the
\* loop is entered only past the three gates.
FatalGates ==
    /\ ~Compile(arguments.pattern).ok =>
          /\ pc \in {"compile", "exited"}
          /\ entries = <<>>
    /\ pc = "exited" =>
          /\ exit_code = <<EXIT_FAILURE>>
          /\ EXIT_FAILURE # 0
          /\ Len(err) = 1
          /\ out = <<>>
          /\ log = <<>>
          /\ fs = fs0
    /\ InLoop =>
          /\ Compile(arguments.pattern).ok
          /\ IsDirectory(fs0, BaseComps)

\* A process ended by an invalid pattern, with files it could have renamed.
FatalGatesWitness ==
    /\ pc = "exited"
    /\ ~Compile(arguments.pattern).ok
    /\ RegularFiles(fs) # {}

\* ---------------------------------------------------------------- C7

\* C7 (quiet suppression): with quiet set nothing is written to the output,
\* yet every failed rename has its diagnostic; with quiet unset there is one
\* report line for each entry whose computed filename differs, in order.
QuietSuppression ==
    /\ arguments.quiet => out = <<>>
    /\ InLoop =>
          /\ Len(err) = Cardinality(Failures)
          /\ \A k \in DOMAIN err : err[k] = Diagnostic("filesystem_error")
    /\ ~arguments.quiet =>
          /\ Len(out) = Cardinality(ChangedEntries)
          /\ \A i \in ChangedEntries :
                LET k == Cardinality({j \in ChangedEntries : j <= i})
                IN  out[k].from =
                        IF arguments.recursive THEN entries[i]
                        ELSE log[i].in_filename

\* A finished quiet run in which a rename failed and another was performed.
QuietSuppressionWitness ==
    /\ arguments.quiet
    /\ pc = "done"
    /\ Failures # {}
    /\ Renames # {}

\* ---------------------------------------------------------------- C8

\* C8 (order determinism): whatever order the iterator yields the entries
\* in, they are visited in ascending order of their paths, the entry list
\* being the one ascending list of the regular files under the base path,
\* and the report lines follow that order.
OrderDeterminism ==
    /\ InLoop =>
          /\ \A i, j \in DOMAIN entries : i < j => PathLess(entries[i], entries[j])
          /\ {Resolve(entries[i]).comps : i \in DOMAIN entries}
               = {q \in Iterate(fs0, BaseComps, arguments.recursive) :
                     IsRegularFile(fs0, q)}
    /\ \A i \in DOMAIN log : log[i].src = Resolve(entries[i]).comps
    /\ \A i, j \in DOMAIN out : i < j => PathLess(out[i].from, out[j].from)

\* A finished run with two report lines whose entries the iterator gave in
\* another order than the sorted one.
OrderDeterminismWitness ==
    /\ pc = "done"
    /\ reordered
    /\ Len(out) >= 2

\* ---------------------------------------------------------------- C9

\* C9 (non-recursive scope): with recursive unset the entries are regular
\* files that are direct children of the base path, every rename's source is
\* such a file, no file that was in a subdirectory is moved, and no
\* directory is moved.
NonRecursiveScope ==
    ~arguments.recursive =>
        /\ \A i \in DOMAIN entries :
              /\ Resolve(entries[i]).comps \in Children(fs0, BaseComps)
              /\ IsRegularFile(fs0, Resolve(entries[i]).comps)
        /\ \A i \in Attempts :
              /\ Parent(log[i].src) = BaseComps
              /\ IsRegularFile(fs0, log[i].src)
        /\ \A i \in Renames : Parent(log[i].moved) = BaseComps
        /\ \A q \in DOMAIN fs0 : IsDirectory(fs0, q) => IsDirectory(fs, q)

\* A finished non-recursive run that renamed a file of the base directory
\* and left alone a file of a subdirectory whose name the pattern changes.
NonRecursiveScopeWitness ==
    /\ ~arguments.recursive
    /\ pc = "done"
    /\ Renames # {}
    /\ \E q \in RegularFiles(fs0) :
          /\ Len(q) > Len(BaseComps) + 1
          /\ IsPrefix(BaseComps, q)
          /\ RegexReplace(q[Len(q)], pattern, arguments.replacement) # q[Len(q)]
          /\ q \in DOMAIN fs /\ fs[q] = fs0[q]

\* --------------------------------------------------------------- C10

\* The destinations of the visited entries whose name changes are pairwise
\* distinct and none of them existed when the run started.
FreshDestinations ==
    /\ \A i, j \in ChangedEntries : i # j => log[i].dst.comps # log[j].dst.comps
    /\ \A i \in ChangedEntries : log[i].dst.comps \notin DOMAIN fs0

\* C10 (end state): after a non-dry run in which no rename failed and whose
\* destinations are fresh, every entry whose name changes has its file at its
\* destination and no longer at its source, every other file is where it
\* was, and there are as many regular files as before.
EndState ==
    (pc = "done" /\ ~arguments.dry_run /\ Failures = {} /\ FreshDestinations) =>
        /\ \A i \in ChangedEntries :
              /\ log[i].src \notin DOMAIN fs
              /\ IsRegularFile(fs, log[i].dst.comps)
              /\ fs[log[i].dst.comps] = fs0[log[i].src]
        /\ \A q \in DOMAIN fs0 :
              q \notin {log[i].src : i \in ChangedEntries}
                 => (q \in DOMAIN fs /\ fs[q] = fs0[q])
        /\ Cardinality(RegularFiles(fs)) = Cardinality(RegularFiles(fs0))

\* A finished run that renamed two files to fresh destinations.
EndStateWitness ==
    /\ pc = "done"
    /\ ~arguments.dry_run
    /\ Failures = {}
    /\ FreshDestinations
    /\ Cardinality(ChangedEntries) >= 2

====
